---- MODULE Spec2Model ----
(***************************************************************************)
(* Filter builders of agent/filters.go: the four filter aggregates         *)
(* (archives, customers, chats, threads), their constructors and chained   *)
(* mutators, the sub-filter constructors, and the JSON document the        *)
(* struct tags produce.                                                    *)
(*                                                                         *)
(* Encoding of Go values:                                                  *)
(*   pointer / slice / map that may be nil : Nil = {} or Some(v) = {v}     *)
(*   slice contents                        : a sequence                    *)
(*   map contents                          : a set of <<key, value>> pairs *)
(*   string, bool, int                     : themselves ("" is empty)      *)
(***************************************************************************)
EXTENDS Integers, Sequences, FiniteSets, TLC

\* Number of mutator calls chained on one aggregate.
MaxCalls == 2

Nil == {}
Some(v) == {v}
Get(o) == CHOOSE v \in o : TRUE

\* ------------------------------------------------------------------------
\* Argument domains
\* ------------------------------------------------------------------------

\* A slice argument: nil, empty but not nil, or holding elements.
SlicesOf(x) == {Nil, Some(<<>>), Some(<<x>>)}

IfaceSlices == SlicesOf("v")
StringSlices == SlicesOf("s")
UintSlices == SlicesOf(1)
Int64Slices == SlicesOf(7)
Strings == {"", "q"}
Dates == {"", "2020-01-01T00:00:00.000000Z"}

\* ------------------------------------------------------------------------
\* propertyFilterType and its constructor
\* ------------------------------------------------------------------------

propertyFilterType ==
    [Exists |-> Nil, Values |-> Nil, ExcludeValues |-> Nil, RequireEveryValue |-> Nil]

\* Variant: the nil-values case also records requireEveryValue.
NewPropertyFilterType_KeepsFlag(includes, vals, requireEveryValue) ==
    CASE vals = Nil ->
           [propertyFilterType EXCEPT !.Exists = Some(includes),
                                      !.RequireEveryValue = Some(requireEveryValue)]
      [] vals # Nil /\ includes ->
           [propertyFilterType EXCEPT !.Values = vals,
                                      !.RequireEveryValue = Some(requireEveryValue)]
      [] vals # Nil /\ ~includes ->
           [propertyFilterType EXCEPT !.ExcludeValues = vals,
                                      !.RequireEveryValue = Some(requireEveryValue)]

\* Variant: tests len(vals) == 0 instead of vals == nil.
NewPropertyFilterType_LenTest(includes, vals, requireEveryValue) ==
    CASE vals = Nil \/ Len(Get(vals)) = 0 ->
           [propertyFilterType EXCEPT !.Exists = Some(includes)]
      [] ~(vals = Nil \/ Len(Get(vals)) = 0) /\ includes ->
           [propertyFilterType EXCEPT !.Values = vals,
                                      !.RequireEveryValue = Some(requireEveryValue)]
      [] ~(vals = Nil \/ Len(Get(vals)) = 0) /\ ~includes ->
           [propertyFilterType EXCEPT !.ExcludeValues = vals,
                                      !.RequireEveryValue = Some(requireEveryValue)]

NewPropertyFilterType(includes, vals, requireEveryValue) ==
    CASE vals = Nil ->
           [propertyFilterType EXCEPT !.Exists = Some(includes)]
      [] vals # Nil /\ includes ->
           [propertyFilterType EXCEPT !.Values = vals,
                                      !.RequireEveryValue = Some(requireEveryValue)]
      [] vals # Nil /\ ~includes ->
           [propertyFilterType EXCEPT !.ExcludeValues = vals,
                                      !.RequireEveryValue = Some(requireEveryValue)]

PropertiesFilters ==
    { Nil,
      Some({}),
      Some({ <<"ns", {}>> }),
      Some({ <<"ns", { <<"p", NewPropertyFilterType(FALSE, Nil, FALSE)>> }>> }) }

\* ------------------------------------------------------------------------
\* Archives
\* ------------------------------------------------------------------------

eventTypesFilter == [Values |-> Nil, ExcludeValues |-> Nil, RequireEveryValue |-> Nil]

SurveyFilter(type, answerID) == [Type |-> type, AnswerID |-> answerID]

SurveySlices ==
    { Nil,
      Some(<<>>),
      Some(<<SurveyFilter("", "")>>),
      Some(<<SurveyFilter("pre_chat", "a1")>>) }

archivesFilters ==
    [Agents |-> Nil, GroupIDs |-> Nil, From |-> "", To |-> "", Properties |-> Nil,
     Tags |-> Nil, Sales |-> Nil, Goals |-> Nil, Surveys |-> Nil, ThreadIDs |-> Nil,
     Query |-> "", EventTypes |-> Nil]

NewArchivesFilters == archivesFilters

af_ByAgents(self, includes, vals, requireEveryValue) ==
    [self EXCEPT !.Agents = Some(NewPropertyFilterType(includes, vals, requireEveryValue))]

af_ByGroups(self, groupIDs) == [self EXCEPT !.GroupIDs = groupIDs]

\* Variant: assigns the thread-ID list without clearing the aggregate.
af_ByThreads_NoReset(self, threadIDs) == [self EXCEPT !.ThreadIDs = threadIDs]

af_ByThreads(self, threadIDs) == [archivesFilters EXCEPT !.ThreadIDs = threadIDs]

af_ByQuery(self, query) == [self EXCEPT !.Query = query]

af_FromDate(self, date) == [self EXCEPT !.From = date]

af_ToDate(self, date) == [self EXCEPT !.To = date]

af_ByProperties(self, propsFilters) == [self EXCEPT !.Properties = propsFilters]

af_BySurveys(self, surveyFilters) == [self EXCEPT !.Surveys = surveyFilters]

af_ByTags(self, includes, vals, requireEveryValue) ==
    [self EXCEPT !.Tags = Some(NewPropertyFilterType(includes, vals, requireEveryValue))]

af_BySales(self, includes, vals, requireEveryValue) ==
    [self EXCEPT !.Sales = Some(NewPropertyFilterType(includes, vals, requireEveryValue))]

af_ByGoals(self, includes, vals, requireEveryValue) ==
    [self EXCEPT !.Goals = Some(NewPropertyFilterType(includes, vals, requireEveryValue))]

af_ByEventTypes(self, includes, vals, requireEveryValue) ==
    LET et == IF includes
              THEN [eventTypesFilter EXCEPT !.Values = vals]
              ELSE [eventTypesFilter EXCEPT !.ExcludeValues = vals]
    IN  [self EXCEPT !.EventTypes =
                        Some([et EXCEPT !.RequireEveryValue = Some(requireEveryValue)])]

\* ------------------------------------------------------------------------
\* Customers
\* ------------------------------------------------------------------------

stringFilter == [Values |-> Nil, ExcludeValues |-> Nil]

NewStringFilter(values, inclusive) ==
    IF inclusive
    THEN [stringFilter EXCEPT !.Values = values]
    ELSE [stringFilter EXCEPT !.ExcludeValues = values]

integerFilter == [Values |-> Nil, ExcludeValues |-> Nil]

NewIntegerFilter(values, inclusive) ==
    IF inclusive
    THEN [integerFilter EXCEPT !.Values = values]
    ELSE [integerFilter EXCEPT !.ExcludeValues = values]

RangeFilter(lte, lt, gte, gt, eq) ==
    [LTE |-> lte, LT |-> lt, GTE |-> gte, GT |-> gt, EQ |-> eq]

DateRangeFilter(lte, lt, gte, gt, eq) ==
    [LTE |-> lte, LT |-> lt, GTE |-> gte, GT |-> gt, EQ |-> eq]

\* *RangeFilter arguments: nil, every combination of unset (0) and set (1)
\* bounds, and the closed interval [1, 5].
RangePtrs ==
    {Nil} \cup {Some(RangeFilter(a, b, c, d, e)) : a \in {0, 1}, b \in {0, 1},
                                                   c \in {0, 1}, d \in {0, 1},
                                                   e \in {0, 1}}
          \cup {Some(RangeFilter(5, 0, 1, 0, 0))}

\* A smaller choice of the same arguments for the other two counters.
FewRangePtrs ==
    {Nil, Some(RangeFilter(0, 0, 0, 0, 0)), Some(RangeFilter(5, 0, 1, 0, 0))}

DateRangePtrs ==
    {Nil, Some(DateRangeFilter("", "", "", "", "")),
     Some(DateRangeFilter("2020-12-31T23:59:59.999999Z", "",
                          "2020-01-01T00:00:00.000000Z", "", ""))}

customersFilters ==
    [Country |-> Nil, Email |-> Nil, Name |-> Nil, CustomerID |-> Nil,
     ChatGroupIDs |-> Nil, ChatsCount |-> Nil, ThreadsCount |-> Nil,
     VisitsCount |-> Nil, CreatedAt |-> Nil, AgentLastEventCreatedAt |-> Nil,
     CustomerLastEventCreatedAt |-> Nil, IncludeCustomersWithoutChats |-> Nil]

NewCustomersFilters == customersFilters

cf_ByCountry(self, values, inclusive) ==
    [self EXCEPT !.Country = Some(NewStringFilter(values, inclusive))]

\* Variant: ByEmail assigns the Name field.
cf_ByEmail_SetsName(self, values, inclusive) ==
    [self EXCEPT !.Name = Some(NewStringFilter(values, inclusive))]

cf_ByEmail(self, values, inclusive) ==
    [self EXCEPT !.Email = Some(NewStringFilter(values, inclusive))]

cf_ByName(self, values, inclusive) ==
    [self EXCEPT !.Name = Some(NewStringFilter(values, inclusive))]

cf_ByID(self, values, inclusive) ==
    [self EXCEPT !.CustomerID = Some(NewStringFilter(values, inclusive))]

cf_ByChatGroupIDs(self, values, inclusive) ==
    [self EXCEPT !.ChatGroupIDs = Some(NewIntegerFilter(values, inclusive))]

cf_ByChatsCount(self, ranges) == [self EXCEPT !.ChatsCount = ranges]

cf_ByThreadsCount(self, ranges) == [self EXCEPT !.ThreadsCount = ranges]

cf_ByVisitsCount(self, ranges) == [self EXCEPT !.VisitsCount = ranges]

cf_ByCreationTime(self, timeRange) == [self EXCEPT !.CreatedAt = timeRange]

cf_ByAgentsLastActivity(self, timeRange) ==
    [self EXCEPT !.AgentLastEventCreatedAt = timeRange]

cf_ByCustomersLastActivity(self, timeRange) ==
    [self EXCEPT !.CustomerLastEventCreatedAt = timeRange]

cf_WithIncludeCustomersWithoutChats(self, value) ==
    [self EXCEPT !.IncludeCustomersWithoutChats = Some(value)]

\* ------------------------------------------------------------------------
\* Chats
\* ------------------------------------------------------------------------

chatsFilters ==
    [IncludeActive |-> FALSE, IncludeChatsWithoutThreads |-> FALSE,
     GroupIDs |-> Nil, Properties |-> Nil]

\* Variant: the constructor leaves IncludeActive at its zero value.
NewChatsFilters_Zero == chatsFilters

NewChatsFilters == [chatsFilters EXCEPT !.IncludeActive = TRUE]

chf_WithoutActiveChats(self) == [self EXCEPT !.IncludeActive = FALSE]

\* Variant: WithChatsWithoutThreads also turns IncludeActive back on.
chf_WithChatsWithoutThreads_Reactivates(self) ==
    [self EXCEPT !.IncludeChatsWithoutThreads = TRUE, !.IncludeActive = TRUE]

chf_WithChatsWithoutThreads(self) == [self EXCEPT !.IncludeChatsWithoutThreads = TRUE]

chf_ByGroups(self, groupIDs) == [self EXCEPT !.GroupIDs = groupIDs]

chf_ByProperties(self, propsFilters) == [self EXCEPT !.Properties = propsFilters]

\* ------------------------------------------------------------------------
\* Threads
\* ------------------------------------------------------------------------

threadsFilters == [From |-> "", To |-> ""]

NewThreadsFilters == threadsFilters

tf_FromDate(self, date) == [self EXCEPT !.From = date]

tf_ToDate(self, date) == [self EXCEPT !.To = date]

\* ------------------------------------------------------------------------
\* JSON documents produced from the struct tags.  A value is tagged with its
\* JSON type; an object is the sequence of its <<key, value>> members in the
\* order they are written.
\* ------------------------------------------------------------------------

JBool(b) == [t |-> "bool", v |-> b]
JNum(n) == [t |-> "num", v |-> n]
JStr(s) == [t |-> "str", v |-> s]
JArr(elems) == [t |-> "arr", v |-> elems]
JObj(members) == [t |-> "obj", v |-> members]

Member(key, json) == << <<key, json>> >>

\* A field tagged `json:"key"`: always written.
Plain(key, json) == Member(key, json)

\* Fields tagged `json:"key,omitempty"`, by the Go type of the field.
\* Variant: a bool field written whatever its value (no omitempty).
OmitEmptyBool_Always(key, b) == Member(key, JBool(b))

OmitEmptyBool(key, b) == IF b = FALSE THEN <<>> ELSE Member(key, JBool(b))
OmitEmptyInt(key, n) == IF n = 0 THEN <<>> ELSE Member(key, JNum(n))
OmitEmptyString(key, s) == IF s = "" THEN <<>> ELSE Member(key, JStr(s))
\* Variant: a *bool field treated as a bool one, false omitted.
OmitEmptyBoolPtr_AsBool(key, p) ==
    IF p = Nil \/ Get(p) = FALSE THEN <<>> ELSE Member(key, JBool(Get(p)))

OmitEmptyBoolPtr(key, p) == IF p = Nil THEN <<>> ELSE Member(key, JBool(Get(p)))
\* A pointer, slice or map field is handed over with its content already
\* encoded: Nil stays Nil, Some(v) becomes Some(encoding of v).
OmitEmptyPtr(key, p) == IF p = Nil THEN <<>> ELSE Member(key, Get(p))
OmitEmptySlice(key, sl) ==
    IF sl = Nil \/ Len(Get(sl)) = 0 THEN <<>> ELSE Member(key, JArr(Get(sl)))

JStrs(sl) == {[i \in 1..Len(x) |-> JStr(x[i])] : x \in sl}
JNums(sl) == {[i \in 1..Len(x) |-> JNum(x[i])] : x \in sl}

\* Map keys are written in sorted order; these are the keys the model uses.
SortedKeys == <<"ns", "p">>

\* m is the set of <<key, encoded value>> entries of the map.
MarshalMap(m) ==
    LET InMap(k) == \E e \in m : e[1] = k
        keys == SelectSeq(SortedKeys, InMap)
    IN  JObj([i \in 1..Len(keys) |->
                 <<keys[i], (CHOOSE e \in m : e[1] = keys[i])[2]>>])

OmitEmptyMap(key, m) ==
    IF m = Nil \/ Get(m) = {} THEN <<>> ELSE Member(key, MarshalMap(Get(m)))

Marshal_propertyFilterType(pft) ==
    JObj(   OmitEmptyBoolPtr("exists", pft.Exists)
         \o OmitEmptySlice("values", JStrs(pft.Values))
         \o OmitEmptySlice("exclude_values", JStrs(pft.ExcludeValues))
         \o OmitEmptyBoolPtr("require_every_value", pft.RequireEveryValue))

\* map[string]*propertyFilterType
Marshal_propertyMap(m) ==
    MarshalMap({<<e[1], Marshal_propertyFilterType(e[2])>> : e \in m})

\* PropertiesFilters, a nil map staying Nil
Marshal_PropertiesFilters(pf) ==
    {{<<e[1], Marshal_propertyMap(e[2])>> : e \in m} : m \in pf}

Marshal_eventTypesFilter(et) ==
    JObj(   OmitEmptySlice("values", JStrs(et.Values))
         \o OmitEmptySlice("exclude_values", JStrs(et.ExcludeValues))
         \o OmitEmptyBoolPtr("require_every_value", et.RequireEveryValue))

Marshal_SurveyFilter(sf) ==
    JObj(Plain("type", JStr(sf.Type)) \o Plain("answer_id", JStr(sf.AnswerID)))

Marshal_archivesFilters(af0) ==
    JObj(   OmitEmptyPtr("agents", {Marshal_propertyFilterType(x) : x \in af0.Agents})
         \o OmitEmptySlice("group_ids", JNums(af0.GroupIDs))
         \o OmitEmptyString("from", af0.From)
         \o OmitEmptyString("to", af0.To)
         \o OmitEmptyMap("properties", Marshal_PropertiesFilters(af0.Properties))
         \o OmitEmptyPtr("tags", {Marshal_propertyFilterType(x) : x \in af0.Tags})
         \o OmitEmptyPtr("sales", {Marshal_propertyFilterType(x) : x \in af0.Sales})
         \o OmitEmptyPtr("goals", {Marshal_propertyFilterType(x) : x \in af0.Goals})
         \o OmitEmptySlice("surveys",
                           {[i \in 1..Len(x) |-> Marshal_SurveyFilter(x[i])] :
                                x \in af0.Surveys})
         \o OmitEmptySlice("thread_ids", JStrs(af0.ThreadIDs))
         \o OmitEmptyString("query", af0.Query)
         \o OmitEmptyPtr("event_types",
                         {Marshal_eventTypesFilter(x) : x \in af0.EventTypes}))

Marshal_stringFilter(sf) ==
    JObj(   OmitEmptySlice("values", JStrs(sf.Values))
         \o OmitEmptySlice("exclude_values", JStrs(sf.ExcludeValues)))

Marshal_integerFilter(intF) ==
    JObj(   OmitEmptySlice("values", JNums(intF.Values))
         \o OmitEmptySlice("exclude_values", JNums(intF.ExcludeValues)))

\* Variant: the eq bound written without omitempty.
Marshal_RangeFilter_EqAlways(r) ==
    JObj(   OmitEmptyInt("lte", r.LTE)
         \o OmitEmptyInt("lt", r.LT)
         \o OmitEmptyInt("gte", r.GTE)
         \o OmitEmptyInt("gt", r.GT)
         \o Plain("eq", JNum(r.EQ)))

Marshal_RangeFilter(r) ==
    JObj(   OmitEmptyInt("lte", r.LTE)
         \o OmitEmptyInt("lt", r.LT)
         \o OmitEmptyInt("gte", r.GTE)
         \o OmitEmptyInt("gt", r.GT)
         \o OmitEmptyInt("eq", r.EQ))

Marshal_DateRangeFilter(r) ==
    JObj(   OmitEmptyString("lte", r.LTE)
         \o OmitEmptyString("lt", r.LT)
         \o OmitEmptyString("gte", r.GTE)
         \o OmitEmptyString("gt", r.GT)
         \o OmitEmptyString("eq", r.EQ))

Marshal_customersFilters(cf0) ==
    JObj(   OmitEmptyPtr("country",
                         {Marshal_stringFilter(x) : x \in cf0.Country})
         \o OmitEmptyPtr("email",
                         {Marshal_stringFilter(x) : x \in cf0.Email})
         \o OmitEmptyPtr("name",
                         {Marshal_stringFilter(x) : x \in cf0.Name})
         \o OmitEmptyPtr("customer_id",
                         {Marshal_stringFilter(x) : x \in cf0.CustomerID})
         \o OmitEmptyPtr("chat_group_ids",
                         {Marshal_integerFilter(x) : x \in cf0.ChatGroupIDs})
         \o OmitEmptyPtr("chats_count",
                         {Marshal_RangeFilter(x) : x \in cf0.ChatsCount})
         \o OmitEmptyPtr("threads_count",
                         {Marshal_RangeFilter(x) : x \in cf0.ThreadsCount})
         \o OmitEmptyPtr("visits_count",
                         {Marshal_RangeFilter(x) : x \in cf0.VisitsCount})
         \o OmitEmptyPtr("created_at",
                         {Marshal_DateRangeFilter(x) : x \in cf0.CreatedAt})
         \o OmitEmptyPtr("agent_last_event_created_at",
                         {Marshal_DateRangeFilter(x) : x \in cf0.AgentLastEventCreatedAt})
         \o OmitEmptyPtr("customer_last_event_created_at",
                         {Marshal_DateRangeFilter(x) : x \in cf0.CustomerLastEventCreatedAt})
         \o OmitEmptyBoolPtr("include_customers_without_chats",
                             cf0.IncludeCustomersWithoutChats))

Marshal_chatsFilters(chf0) ==
    JObj(   OmitEmptyBool("include_active", chf0.IncludeActive)
         \o OmitEmptyBool("include_chats_without_threads",
                          chf0.IncludeChatsWithoutThreads)
         \o OmitEmptySlice("group_ids", JNums(chf0.GroupIDs))
         \o OmitEmptyMap("properties", Marshal_PropertiesFilters(chf0.Properties)))

Marshal_threadsFilters(tf0) ==
    JObj(OmitEmptyString("from", tf0.From) \o OmitEmptyString("to", tf0.To))

\* ------------------------------------------------------------------------
\* The builder chain.  af, cf, chf and tf are the four aggregates as their
\* constructors return them; the aggregates do not interact, so a behaviour
\* chains its mutator calls on one of them, `target`.  `last` is the mutator called last, `args[op]` the arguments of the
\* last call of mutator op (Nil before its first call), `ret` the instance
\* the last call returned.
\* ------------------------------------------------------------------------

VARIABLES af, cf, chf, tf, target, last, args, ret, ncalls

vars == <<af, cf, chf, tf, target, last, args, ret, ncalls>>

Targets == {"archives", "customers", "chats", "threads"}

ArchivesOps ==
    {"ByAgents", "ByGroups", "ByThreads", "ByQuery", "FromDate",
     "ToDate", "ByProperties", "BySurveys", "ByTags", "BySales",
     "ByGoals", "ByEventTypes"}

CustomersOps ==
    {"ByCountry", "ByEmail", "ByName", "ByID", "ByChatGroupIDs",
     "ByChatsCount", "ByThreadsCount", "ByVisitsCount",
     "ByCreationTime", "ByAgentsLastActivity",
     "ByCustomersLastActivity", "WithIncludeCustomersWithoutChats"}

ChatsOps ==
    {"WithoutActiveChats", "WithChatsWithoutThreads", "ByGroups",
     "ByProperties"}

ThreadsOps ==
    {"FromDate", "ToDate"}

OpsOf(t) ==
    CASE t = "archives" -> ArchivesOps
      [] t = "customers" -> CustomersOps
      [] t = "chats" -> ChatsOps
      [] t = "threads" -> ThreadsOps

AllOps == ArchivesOps \cup CustomersOps \cup ChatsOps \cup ThreadsOps

Init ==
    /\ target \in Targets
    /\ af = NewArchivesFilters
    /\ cf = NewCustomersFilters
    /\ chf = NewChatsFilters
    /\ tf = NewThreadsFilters
    /\ last = "New"
    /\ args = [op \in AllOps |-> Nil]
    /\ ret = target
    /\ ncalls = 0

\* A call of mutator op with arguments a on the aggregate t; every mutator
\* ends with `return <receiver>`.
Call(t, op, a) ==
    /\ target = t
    /\ ncalls < MaxCalls
    /\ ncalls' = ncalls + 1
    /\ last' = op
    /\ args' = [args EXCEPT ![op] = Some(a)]
    /\ ret' = t
    /\ UNCHANGED target

Call_af_ByAgents ==
    \E includes \in BOOLEAN, vals \in IfaceSlices, requireEveryValue \in BOOLEAN :
        /\ Call("archives", "ByAgents", <<includes, vals, requireEveryValue>>)
        /\ af' = af_ByAgents(af, includes, vals, requireEveryValue)
        /\ UNCHANGED <<cf, chf, tf>>

Call_af_ByGroups ==
    \E groupIDs \in UintSlices :
        /\ Call("archives", "ByGroups", <<groupIDs>>)
        /\ af' = af_ByGroups(af, groupIDs)
        /\ UNCHANGED <<cf, chf, tf>>

Call_af_ByThreads ==
    \E threadIDs \in StringSlices :
        /\ Call("archives", "ByThreads", <<threadIDs>>)
        /\ af' = af_ByThreads(af, threadIDs)
        /\ UNCHANGED <<cf, chf, tf>>

Call_af_ByQuery ==
    \E query \in Strings :
        /\ Call("archives", "ByQuery", <<query>>)
        /\ af' = af_ByQuery(af, query)
        /\ UNCHANGED <<cf, chf, tf>>

Call_af_FromDate ==
    \E date \in Dates :
        /\ Call("archives", "FromDate", <<date>>)
        /\ af' = af_FromDate(af, date)
        /\ UNCHANGED <<cf, chf, tf>>

Call_af_ToDate ==
    \E date \in Dates :
        /\ Call("archives", "ToDate", <<date>>)
        /\ af' = af_ToDate(af, date)
        /\ UNCHANGED <<cf, chf, tf>>

Call_af_ByProperties ==
    \E propsFilters \in PropertiesFilters :
        /\ Call("archives", "ByProperties", <<propsFilters>>)
        /\ af' = af_ByProperties(af, propsFilters)
        /\ UNCHANGED <<cf, chf, tf>>

Call_af_BySurveys ==
    \E surveyFilters \in SurveySlices :
        /\ Call("archives", "BySurveys", <<surveyFilters>>)
        /\ af' = af_BySurveys(af, surveyFilters)
        /\ UNCHANGED <<cf, chf, tf>>

Call_af_ByTags ==
    \E includes \in BOOLEAN, vals \in IfaceSlices, requireEveryValue \in BOOLEAN :
        /\ Call("archives", "ByTags", <<includes, vals, requireEveryValue>>)
        /\ af' = af_ByTags(af, includes, vals, requireEveryValue)
        /\ UNCHANGED <<cf, chf, tf>>

Call_af_BySales ==
    \E includes \in BOOLEAN, vals \in IfaceSlices, requireEveryValue \in BOOLEAN :
        /\ Call("archives", "BySales", <<includes, vals, requireEveryValue>>)
        /\ af' = af_BySales(af, includes, vals, requireEveryValue)
        /\ UNCHANGED <<cf, chf, tf>>

Call_af_ByGoals ==
    \E includes \in BOOLEAN, vals \in IfaceSlices, requireEveryValue \in BOOLEAN :
        /\ Call("archives", "ByGoals", <<includes, vals, requireEveryValue>>)
        /\ af' = af_ByGoals(af, includes, vals, requireEveryValue)
        /\ UNCHANGED <<cf, chf, tf>>

Call_af_ByEventTypes ==
    \E includes \in BOOLEAN, vals \in StringSlices, requireEveryValue \in BOOLEAN :
        /\ Call("archives", "ByEventTypes", <<includes, vals, requireEveryValue>>)
        /\ af' = af_ByEventTypes(af, includes, vals, requireEveryValue)
        /\ UNCHANGED <<cf, chf, tf>>

Call_cf_ByCountry ==
    \E values \in StringSlices, inclusive \in BOOLEAN :
        /\ Call("customers", "ByCountry", <<values, inclusive>>)
        /\ cf' = cf_ByCountry(cf, values, inclusive)
        /\ UNCHANGED <<af, chf, tf>>

Call_cf_ByEmail ==
    \E values \in StringSlices, inclusive \in BOOLEAN :
        /\ Call("customers", "ByEmail", <<values, inclusive>>)
        /\ cf' = cf_ByEmail(cf, values, inclusive)
        /\ UNCHANGED <<af, chf, tf>>

Call_cf_ByName ==
    \E values \in StringSlices, inclusive \in BOOLEAN :
        /\ Call("customers", "ByName", <<values, inclusive>>)
        /\ cf' = cf_ByName(cf, values, inclusive)
        /\ UNCHANGED <<af, chf, tf>>

Call_cf_ByID ==
    \E values \in StringSlices, inclusive \in BOOLEAN :
        /\ Call("customers", "ByID", <<values, inclusive>>)
        /\ cf' = cf_ByID(cf, values, inclusive)
        /\ UNCHANGED <<af, chf, tf>>

Call_cf_ByChatGroupIDs ==
    \E values \in Int64Slices, inclusive \in BOOLEAN :
        /\ Call("customers", "ByChatGroupIDs", <<values, inclusive>>)
        /\ cf' = cf_ByChatGroupIDs(cf, values, inclusive)
        /\ UNCHANGED <<af, chf, tf>>

Call_cf_ByChatsCount ==
    \E ranges \in RangePtrs :
        /\ Call("customers", "ByChatsCount", <<ranges>>)
        /\ cf' = cf_ByChatsCount(cf, ranges)
        /\ UNCHANGED <<af, chf, tf>>

Call_cf_ByThreadsCount ==
    \E ranges \in FewRangePtrs :
        /\ Call("customers", "ByThreadsCount", <<ranges>>)
        /\ cf' = cf_ByThreadsCount(cf, ranges)
        /\ UNCHANGED <<af, chf, tf>>

Call_cf_ByVisitsCount ==
    \E ranges \in FewRangePtrs :
        /\ Call("customers", "ByVisitsCount", <<ranges>>)
        /\ cf' = cf_ByVisitsCount(cf, ranges)
        /\ UNCHANGED <<af, chf, tf>>

Call_cf_ByCreationTime ==
    \E timeRange \in DateRangePtrs :
        /\ Call("customers", "ByCreationTime", <<timeRange>>)
        /\ cf' = cf_ByCreationTime(cf, timeRange)
        /\ UNCHANGED <<af, chf, tf>>

Call_cf_ByAgentsLastActivity ==
    \E timeRange \in DateRangePtrs :
        /\ Call("customers", "ByAgentsLastActivity", <<timeRange>>)
        /\ cf' = cf_ByAgentsLastActivity(cf, timeRange)
        /\ UNCHANGED <<af, chf, tf>>

Call_cf_ByCustomersLastActivity ==
    \E timeRange \in DateRangePtrs :
        /\ Call("customers", "ByCustomersLastActivity", <<timeRange>>)
        /\ cf' = cf_ByCustomersLastActivity(cf, timeRange)
        /\ UNCHANGED <<af, chf, tf>>

Call_cf_WithIncludeCustomersWithoutChats ==
    \E value \in BOOLEAN :
        /\ Call("customers", "WithIncludeCustomersWithoutChats", <<value>>)
        /\ cf' = cf_WithIncludeCustomersWithoutChats(cf, value)
        /\ UNCHANGED <<af, chf, tf>>

Call_chf_WithoutActiveChats ==
    /\ Call("chats", "WithoutActiveChats", <<>>)
    /\ chf' = chf_WithoutActiveChats(chf)
    /\ UNCHANGED <<af, cf, tf>>

Call_chf_WithChatsWithoutThreads ==
    /\ Call("chats", "WithChatsWithoutThreads", <<>>)
    /\ chf' = chf_WithChatsWithoutThreads(chf)
    /\ UNCHANGED <<af, cf, tf>>

Call_chf_ByGroups ==
    \E groupIDs \in UintSlices :
        /\ Call("chats", "ByGroups", <<groupIDs>>)
        /\ chf' = chf_ByGroups(chf, groupIDs)
        /\ UNCHANGED <<af, cf, tf>>

Call_chf_ByProperties ==
    \E propsFilters \in PropertiesFilters :
        /\ Call("chats", "ByProperties", <<propsFilters>>)
        /\ chf' = chf_ByProperties(chf, propsFilters)
        /\ UNCHANGED <<af, cf, tf>>

Call_tf_FromDate ==
    \E date \in Dates :
        /\ Call("threads", "FromDate", <<date>>)
        /\ tf' = tf_FromDate(tf, date)
        /\ UNCHANGED <<af, cf, chf>>

Call_tf_ToDate ==
    \E date \in Dates :
        /\ Call("threads", "ToDate", <<date>>)
        /\ tf' = tf_ToDate(tf, date)
        /\ UNCHANGED <<af, cf, chf>>

Next ==
    \/ Call_af_ByAgents
    \/ Call_af_ByGroups
    \/ Call_af_ByThreads
    \/ Call_af_ByQuery
    \/ Call_af_FromDate
    \/ Call_af_ToDate
    \/ Call_af_ByProperties
    \/ Call_af_BySurveys
    \/ Call_af_ByTags
    \/ Call_af_BySales
    \/ Call_af_ByGoals
    \/ Call_af_ByEventTypes
    \/ Call_cf_ByCountry
    \/ Call_cf_ByEmail
    \/ Call_cf_ByName
    \/ Call_cf_ByID
    \/ Call_cf_ByChatGroupIDs
    \/ Call_cf_ByChatsCount
    \/ Call_cf_ByThreadsCount
    \/ Call_cf_ByVisitsCount
    \/ Call_cf_ByCreationTime
    \/ Call_cf_ByAgentsLastActivity
    \/ Call_cf_ByCustomersLastActivity
    \/ Call_cf_WithIncludeCustomersWithoutChats
    \/ Call_chf_WithoutActiveChats
    \/ Call_chf_WithChatsWithoutThreads
    \/ Call_chf_ByGroups
    \/ Call_chf_ByProperties
    \/ Call_tf_FromDate
    \/ Call_tf_ToDate

Spec == Init /\ [][Next]_vars

\* ------------------------------------------------------------------------
\* Properties
\* ------------------------------------------------------------------------

Called(op) == args[op] # Nil
Arg(op, i) == Get(args[op])[i]

HasKey(j, k) == \E i \in 1..Len(j.v) : j.v[i][1] = k
Val(j, k) == j.v[CHOOSE i \in 1..Len(j.v) : j.v[i][1] = k][2]
Keys(j) == [i \in 1..Len(j.v) |-> j.v[i][1]]
NoKeys(j) == j.t = "obj" /\ Len(j.v) = 0

EmptySlice(sl) == sl = Nil \/ Len(Get(sl)) = 0
EmptyMap(m) == m = Nil \/ Get(m) = {}

PftOps == {"ByAgents", "ByTags", "BySales", "ByGoals"}

FieldOf(op) ==
    CASE op = "ByAgents" -> "Agents"
      [] op = "ByGroups" -> "GroupIDs"
      [] op = "ByThreads" -> "ThreadIDs"
      [] op = "ByQuery" -> "Query"
      [] op = "FromDate" -> "From"
      [] op = "ToDate" -> "To"
      [] op = "ByProperties" -> "Properties"
      [] op = "BySurveys" -> "Surveys"
      [] op = "ByTags" -> "Tags"
      [] op = "BySales" -> "Sales"
      [] op = "ByGoals" -> "Goals"
      [] op = "ByEventTypes" -> "EventTypes"
      [] op = "ByCountry" -> "Country"
      [] op = "ByEmail" -> "Email"
      [] op = "ByName" -> "Name"
      [] op = "ByID" -> "CustomerID"
      [] op = "ByChatGroupIDs" -> "ChatGroupIDs"
      [] op = "ByChatsCount" -> "ChatsCount"
      [] op = "ByThreadsCount" -> "ThreadsCount"
      [] op = "ByVisitsCount" -> "VisitsCount"
      [] op = "ByCreationTime" -> "CreatedAt"
      [] op = "ByAgentsLastActivity" -> "AgentLastEventCreatedAt"
      [] op = "ByCustomersLastActivity" -> "CustomerLastEventCreatedAt"
      [] op = "WithIncludeCustomersWithoutChats" -> "IncludeCustomersWithoutChats"
      [] op = "WithoutActiveChats" -> "IncludeActive"
      [] op = "WithChatsWithoutThreads" -> "IncludeChatsWithoutThreads"

KeyOf(op) ==
    CASE op = "ByAgents" -> "agents"
      [] op = "ByTags" -> "tags"
      [] op = "BySales" -> "sales"
      [] op = "ByGoals" -> "goals"

\* The archives aggregate with nothing but the thread-ID list set.
OnlyThreadIDs(a, threadIDs) ==
    /\ a.ThreadIDs = threadIDs
    /\ a.Agents = Nil /\ a.GroupIDs = Nil /\ a.From = "" /\ a.To = ""
    /\ a.Properties = Nil /\ a.Tags = Nil /\ a.Sales = Nil /\ a.Goals = Nil
    /\ a.Surveys = Nil /\ a.Query = "" /\ a.EventTypes = Nil

\* C1: right after ByThreads(T), whatever mutators were called before it,
\* the archives aggregate holds ThreadIDs = T and every other field is at
\* its empty/unset value.
C1_ByThreadsResets ==
    (target = "archives" /\ last = "ByThreads")
        => OnlyThreadIDs(af, Arg("ByThreads", 1))

\* A ByThreads call with a non-empty list made after ByGroups had set groups.
C1_Witness ==
    /\ target = "archives" /\ last = "ByThreads" /\ ncalls = 2
    /\ Called("ByGroups") /\ Arg("ByGroups", 1) = Some(<<1>>)
    /\ Arg("ByThreads", 1) = Some(<<"s">>)

OtherArchiveFieldPopulated(a) ==
    \/ a.Agents # Nil \/ ~EmptySlice(a.GroupIDs) \/ a.From # "" \/ a.To # ""
    \/ ~EmptyMap(a.Properties) \/ a.Tags # Nil \/ a.Sales # Nil \/ a.Goals # Nil
    \/ ~EmptySlice(a.Surveys) \/ a.Query # "" \/ a.EventTypes # Nil

\* C2: in every reachable state of the archives aggregate, whenever
\* ThreadIDs is populated (non-empty) no other field is populated.
C2_ThreadIDsExclusive ==
    (target = "archives" /\ ~EmptySlice(af.ThreadIDs))
        => ~OtherArchiveFieldPopulated(af)

ExistsOnly(pft, includes) ==
    /\ pft.Exists = Some(includes)
    /\ pft.Values = Nil
    /\ pft.ExcludeValues = Nil
    /\ pft.RequireEveryValue = Nil

\* C3: with nil values NewPropertyFilterType returns a filter whose Exists is
\* set to includes and whose Values, ExcludeValues and RequireEveryValue are
\* unset, whatever requireEveryValue is; and so is the Agents/Tags/Sales/Goals
\* field after ByAgents/ByTags/BySales/ByGoals is called with nil values.
C3_NilValuesExistsOnly ==
    /\ \A includes \in BOOLEAN, r \in BOOLEAN :
           ExistsOnly(NewPropertyFilterType(includes, Nil, r), includes)
    /\ \A op \in PftOps :
           (target = "archives" /\ last = op /\ Arg(op, 2) = Nil)
               => /\ af[FieldOf(op)] # Nil
                  /\ ExistsOnly(Get(af[FieldOf(op)]), Arg(op, 1))

\* BySales(false, nil, true) was the last call.
C3_Witness ==
    /\ target = "archives" /\ last = "BySales"
    /\ Arg("BySales", 1) = FALSE /\ Arg("BySales", 2) = Nil /\ Arg("BySales", 3) = TRUE
    /\ af.Sales = Some([Exists |-> Some(FALSE), Values |-> Nil,
                        ExcludeValues |-> Nil, RequireEveryValue |-> Nil])

ValueSetOnly(pft, includes, vals, r) ==
    /\ pft.Exists = Nil
    /\ pft.RequireEveryValue = Some(r)
    /\ includes => (pft.Values = vals /\ pft.ExcludeValues = Nil)
    /\ ~includes => (pft.ExcludeValues = vals /\ pft.Values = Nil)

\* C4: with a non-nil value list V (the empty non-nil list included)
\* NewPropertyFilterType returns a filter with RequireEveryValue set to r,
\* Exists unset, and V in Values alone when includes is true, in
\* ExcludeValues alone when includes is false.
C4_NonNilValuesOneSet ==
    /\ \A includes \in BOOLEAN, r \in BOOLEAN, vals \in IfaceSlices \ {Nil} :
           ValueSetOnly(NewPropertyFilterType(includes, vals, r), includes, vals, r)
    /\ \A op \in PftOps :
           (target = "archives" /\ last = op /\ Arg(op, 2) # Nil)
               => /\ af[FieldOf(op)] # Nil
                  /\ ValueSetOnly(Get(af[FieldOf(op)]), Arg(op, 1), Arg(op, 2),
                                  Arg(op, 3))

\* ByAgents(false, []interface{}{}, false): an empty, non-nil list.
C4_Witness ==
    /\ target = "archives" /\ last = "ByAgents"
    /\ Arg("ByAgents", 1) = FALSE /\ Arg("ByAgents", 2) = Some(<<>>)
    /\ af.Agents # Nil /\ Get(af.Agents).ExcludeValues = Some(<<>>)

\* No mutator has been called on the aggregate t since its construction.
Untouched(t) == target # t \/ ncalls = 0

\* C5 as stated: the instance each of the four constructors returns, with no
\* mutator called on it, serializes to an object with no keys.
C5_EveryNewAggregateEmptyJSON ==
    /\ Untouched("archives") => NoKeys(Marshal_archivesFilters(af))
    /\ Untouched("customers") => NoKeys(Marshal_customersFilters(cf))
    /\ Untouched("chats") => NoKeys(Marshal_chatsFilters(chf))
    /\ Untouched("threads") => NoKeys(Marshal_threadsFilters(tf))

\* C5, amended: the instances NewArchivesFilters, NewCustomersFilters and
\* NewThreadsFilters return serialize to {} while no mutator has been called
\* on them; the instance NewChatsFilters returns serializes to
\* {"include_active":true}.
C5_NewAggregateJSON ==
    /\ Untouched("archives") => NoKeys(Marshal_archivesFilters(af))
    /\ Untouched("customers") => NoKeys(Marshal_customersFilters(cf))
    /\ Untouched("threads") => NoKeys(Marshal_threadsFilters(tf))
    /\ Untouched("chats")
           => /\ Keys(Marshal_chatsFilters(chf)) = <<"include_active">>
              /\ Val(Marshal_chatsFilters(chf), "include_active") = JBool(TRUE)

\* The four freshly constructed aggregates, before any mutator call.
C5_Witness ==
    /\ ncalls = 0 /\ last = "New" /\ target = "chats"
    /\ HasKey(Marshal_chatsFilters(chf), "include_active")
    /\ NoKeys(Marshal_archivesFilters(af))

\* The aggregate under construction, and its state at construction.
Cur ==
    CASE target = "archives" -> af
      [] target = "customers" -> cf
      [] target = "chats" -> chf
      [] target = "threads" -> tf

Default ==
    CASE target = "archives" -> archivesFilters
      [] target = "customers" -> customersFilters
      [] target = "chats" -> [chatsFilters EXCEPT !.IncludeActive = TRUE]
      [] target = "threads" -> threadsFilters

\* The value a call of mutator op with arguments a gives to its field.
Given(op, a) ==
    CASE op \in PftOps ->
           Some(CASE a[2] = Nil ->
                       [Exists |-> Some(a[1]), Values |-> Nil, ExcludeValues |-> Nil,
                        RequireEveryValue |-> Nil]
                  [] a[2] # Nil /\ a[1] ->
                       [Exists |-> Nil, Values |-> a[2], ExcludeValues |-> Nil,
                        RequireEveryValue |-> Some(a[3])]
                  [] a[2] # Nil /\ ~a[1] ->
                       [Exists |-> Nil, Values |-> Nil, ExcludeValues |-> a[2],
                        RequireEveryValue |-> Some(a[3])])
      [] op = "ByEventTypes" ->
           Some([Values |-> IF a[1] THEN a[2] ELSE Nil,
                 ExcludeValues |-> IF a[1] THEN Nil ELSE a[2],
                 RequireEveryValue |-> Some(a[3])])
      [] op \in {"ByCountry", "ByEmail", "ByName", "ByID", "ByChatGroupIDs"} ->
           Some([Values |-> IF a[2] THEN a[1] ELSE Nil,
                 ExcludeValues |-> IF a[2] THEN Nil ELSE a[1]])
      [] op = "WithIncludeCustomersWithoutChats" -> Some(a[1])
      [] op = "WithoutActiveChats" -> FALSE
      [] op = "WithChatsWithoutThreads" -> TRUE
      [] OTHER -> a[1]

Mutators == OpsOf(target) \ {"ByThreads"}

\* While ByThreads has not been called, each field holds what the last call
\* of its mutator gave it, or its constructor default.
C6_LastCallWins ==
    (target = "archives" => ~Called("ByThreads"))
        => /\ \A op \in Mutators :
                  Cur[FieldOf(op)] = IF Called(op)
                                     THEN Given(op, Get(args[op]))
                                     ELSE Default[FieldOf(op)]
           /\ target = "archives" => af.ThreadIDs = Nil

\* A mutator other than ByThreads assigns its own field, leaves every other
\* field of the aggregate and the other aggregates alone, and returns the
\* instance it was called on.
C6_OwnFieldOnly ==
    (last' \in Mutators)
        => /\ \A f \in DOMAIN Cur :
                  Cur'[f] = IF f = FieldOf(last')
                            THEN Given(last', Get(args'[last']))
                            ELSE Cur[f]
           /\ target # "archives" => af' = af
           /\ target # "customers" => cf' = cf
           /\ target # "chats" => chf' = chf
           /\ target # "threads" => tf' = tf
           /\ ret' = target

\* C6: every mutator other than archives ByThreads assigns only its own
\* field, leaves the other fields unchanged and returns the instance it was
\* called on; hence each field holds the value of the last call of its
\* mutator (or its constructor default), whatever the order of the calls to
\* the mutators of different fields.
C6_MutatorsFrame == [][C6_OwnFieldOnly]_vars /\ []C6_LastCallWins

\* ByEmail called after ByChatsCount, whose range is still in place.
C6_Witness ==
    /\ target = "customers" /\ last = "ByEmail" /\ Called("ByChatsCount")
    /\ Arg("ByChatsCount", 1) = Some(RangeFilter(5, 0, 1, 0, 0))
    /\ cf.ChatsCount = Some(RangeFilter(5, 0, 1, 0, 0))
    /\ cf.Email = Some([Values |-> Nil, ExcludeValues |-> Some(<<"s">>)])

\* C7: once WithoutActiveChats has been called the serialized chats filter
\* has no include_active key, and if no other field holds a non-empty value
\* the document is {}: the same document as a chats filter with nothing set.
C7_WithoutActiveChatsDropsKey ==
    (target = "chats" /\ Called("WithoutActiveChats"))
        => /\ ~HasKey(Marshal_chatsFilters(chf), "include_active")
           /\ (/\ ~chf.IncludeChatsWithoutThreads
               /\ EmptySlice(chf.GroupIDs)
               /\ EmptyMap(chf.Properties))
                  => /\ NoKeys(Marshal_chatsFilters(chf))
                     /\ Marshal_chatsFilters(chf) = Marshal_chatsFilters(chatsFilters)

\* NewChatsFilters().WithoutActiveChats()
C7_Witness ==
    /\ target = "chats" /\ last = "WithoutActiveChats" /\ ncalls = 1
    /\ chf.IncludeActive = FALSE
    /\ NoKeys(Marshal_chatsFilters(chf))

IsZeroJ(j) ==
    CASE j.t = "bool" -> j.v = FALSE
      [] j.t = "num" -> j.v = 0
      [] j.t = "str" -> j.v = ""
      [] j.t = "arr" -> Len(j.v) = 0
      [] OTHER -> FALSE

\* Every member of j, at any depth, that holds false, 0, "" or [] has one of
\* the keys in `allowed`.
RECURSIVE ZeroOnlyUnder(_, _)
ZeroOnlyUnder(j, allowed) ==
    CASE j.t = "obj" ->
           \A i \in 1..Len(j.v) :
               /\ IsZeroJ(j.v[i][2]) => j.v[i][1] \in allowed
               /\ ZeroOnlyUnder(j.v[i][2], allowed)
      [] j.t = "arr" -> \A i \in 1..Len(j.v) : ZeroOnlyUnder(j.v[i], allowed)
      [] OTHER -> TRUE

CurJSON ==
    CASE target = "archives" -> Marshal_archivesFilters(af)
      [] target = "customers" -> Marshal_customersFilters(cf)
      [] target = "chats" -> Marshal_chatsFilters(chf)
      [] target = "threads" -> Marshal_threadsFilters(tf)

\* The keys whose false is written: they are pointers to bool.
ExplicitFalseKeys == {"exists", "require_every_value", "include_customers_without_chats"}

\* The explicit falses are written: exists of a property filter built with
\* includes = false and nil values, require_every_value of a property or
\* event-type filter built with requireEveryValue = false and a non-nil
\* list, include_customers_without_chats after
\* WithIncludeCustomersWithoutChats(false).
ExplicitFalseKept ==
    /\ \A op \in PftOps :
           (target = "archives" /\ last = op /\ ~Arg(op, 1) /\ Arg(op, 2) = Nil)
               => /\ HasKey(CurJSON, KeyOf(op))
                  /\ HasKey(Val(CurJSON, KeyOf(op)), "exists")
                  /\ Val(Val(CurJSON, KeyOf(op)), "exists") = JBool(FALSE)
    /\ \A op \in PftOps :
           (target = "archives" /\ last = op /\ Arg(op, 2) # Nil /\ ~Arg(op, 3))
               => /\ HasKey(CurJSON, KeyOf(op))
                  /\ HasKey(Val(CurJSON, KeyOf(op)), "require_every_value")
                  /\ Val(Val(CurJSON, KeyOf(op)), "require_every_value") = JBool(FALSE)
    /\ (/\ target = "archives" /\ last = "ByEventTypes"
        /\ Arg("ByEventTypes", 2) # Nil /\ ~Arg("ByEventTypes", 3))
           => /\ HasKey(CurJSON, "event_types")
              /\ HasKey(Val(CurJSON, "event_types"), "require_every_value")
              /\ Val(Val(CurJSON, "event_types"), "require_every_value") = JBool(FALSE)
    /\ (/\ target = "customers" /\ Called("WithIncludeCustomersWithoutChats")
        /\ ~Arg("WithIncludeCustomersWithoutChats", 1))
           => /\ HasKey(CurJSON, "include_customers_without_chats")
              /\ Val(CurJSON, "include_customers_without_chats") = JBool(FALSE)

\* C8 as stated: the explicit falses are written, and every other field
\* holding a zero/empty/false/nil value is omitted from the document.
C8_OnlyExplicitFalseWritten ==
    /\ ExplicitFalseKept
    /\ ZeroOnlyUnder(CurJSON, ExplicitFalseKeys)

\* C8, amended: the explicit falses are written, and every other field
\* holding a zero/empty/false/nil value is omitted, except the type and
\* answer_id of a survey filter, which are written even when empty.
C8_ExplicitFalseAndSurveyKeys ==
    /\ ExplicitFalseKept
    /\ ZeroOnlyUnder(CurJSON, ExplicitFalseKeys \cup {"type", "answer_id"})
    /\ (target = "archives" /\ ~EmptySlice(af.Surveys))
           => \A i \in 1..Len(Get(af.Surveys)) :
                  Keys(Val(CurJSON, "surveys").v[i]) = <<"type", "answer_id">>

\* ByAgents(false, nil, _) followed by a survey filter with empty strings.
C8_Witness ==
    /\ target = "archives" /\ last = "BySurveys"
    /\ Arg("BySurveys", 1) = Some(<<SurveyFilter("", "")>>)
    /\ Called("ByAgents") /\ ~Arg("ByAgents", 1) /\ Arg("ByAgents", 2) = Nil
    /\ Val(Val(CurJSON, "agents"), "exists") = JBool(FALSE)

\* C9: NewChatsFilters returns IncludeActive = true with the other fields
\* empty, the other three constructors return every field empty/unset, and
\* on a chats aggregate IncludeActive is true exactly while WithoutActiveChats
\* has not been called.
C9_ConstructorDefaults ==
    /\ Untouched("archives") => OnlyThreadIDs(af, Nil)
    /\ Untouched("customers") => \A f \in DOMAIN cf : cf[f] = Nil
    /\ Untouched("threads") => tf.From = "" /\ tf.To = ""
    /\ Untouched("chats")
           => /\ chf.IncludeActive = TRUE
              /\ chf.IncludeChatsWithoutThreads = FALSE
              /\ chf.GroupIDs = Nil
              /\ chf.Properties = Nil
    /\ target = "chats" => (chf.IncludeActive <=> ~Called("WithoutActiveChats"))

\* WithoutActiveChats, then another chats mutator.
C9_Witness ==
    /\ target = "chats" /\ Called("WithoutActiveChats")
    /\ last = "WithChatsWithoutThreads" /\ ~chf.IncludeActive

KeyOfRange(op) ==
    CASE op = "ByChatsCount" -> "chats_count"
      [] op = "ByThreadsCount" -> "threads_count"
      [] op = "ByVisitsCount" -> "visits_count"

Bound(r, k) ==
    CASE k = "lte" -> r.LTE
      [] k = "lt" -> r.LT
      [] k = "gte" -> r.GTE
      [] k = "gt" -> r.GT
      [] k = "eq" -> r.EQ

\* The range object written under `key` for the *RangeFilter p.
RangeWritten(key, p) ==
    LET NonZero(k) == Bound(Get(p), k) # 0
        want == SelectSeq(<<"lte", "lt", "gte", "gt", "eq">>, NonZero)
    IN  IF p = Nil
        THEN ~HasKey(CurJSON, key)
        ELSE /\ HasKey(CurJSON, key)
             /\ Val(CurJSON, key).t = "obj"
             /\ Keys(Val(CurJSON, key)) = want
             /\ \A i \in 1..Len(want) :
                    Val(Val(CurJSON, key), want[i]) = JNum(Bound(Get(p), want[i]))

\* C10: the bounds of a range filter are written independently, each key
\* present exactly when its bound is nonzero, in the order lte, lt, gte, gt,
\* eq; a bound of 0 is written as an unset one, so a range whose bounds are
\* all 0 is written as an object with no keys.
C10_RangeBounds ==
    target = "customers"
        => /\ RangeWritten("chats_count", cf.ChatsCount)
           /\ RangeWritten("threads_count", cf.ThreadsCount)
           /\ RangeWritten("visits_count", cf.VisitsCount)
           /\ cf.ChatsCount = Some(RangeFilter(5, 0, 1, 0, 0))
                  => Val(CurJSON, "chats_count")
                         = JObj(<< <<"lte", JNum(5)>>, <<"gte", JNum(1)>> >>)
           /\ \A op \in {"ByChatsCount", "ByThreadsCount", "ByVisitsCount"} :
                  (last = op /\ Arg(op, 1) = Some(RangeFilter(0, 0, 0, 0, 0)))
                      => /\ HasKey(CurJSON, KeyOfRange(op))
                         /\ NoKeys(Val(CurJSON, KeyOfRange(op)))

\* ByVisitsCount(&RangeFilter{EQ: 0}) after ByChatsCount(&RangeFilter{GTE: 1, LTE: 5}).
C10_Witness ==
    /\ target = "customers" /\ last = "ByVisitsCount"
    /\ Arg("ByVisitsCount", 1) = Some(RangeFilter(0, 0, 0, 0, 0))
    /\ cf.ChatsCount = Some(RangeFilter(5, 0, 1, 0, 0))
    /\ NoKeys(Val(CurJSON, "visits_count"))

====
